---------------------------- MODULE Spec2Model ----------------------------
(***************************************************************************)
(* WordPress Archive Vue (archive.vue): the query store, the URL codec,    *)
(* the taxonomy filters, the sparse page cache and the sequential          *)
(* fetch/prefetch controller, with the created hook of the demonstration   *)
(* component (proto/app.vue).  SpecProto adds that component's `change`    *)
(* wrapper to the handlers.                                                *)
(***************************************************************************)
EXTENDS Integers, Sequences, FiniteSets, TLC

(***************************************************************************)
(* JavaScript values.  A number is [num |-> n], a string [str |-> s], an   *)
(* array [arr |-> <<scalars>>], `false` is [bool |-> FALSE].  An object is *)
(* the sequence of its own enumerable properties [k |-> key, v |-> value]  *)
(* in insertion order, the order Object.keys and JSON.stringify walk.      *)
(***************************************************************************)
Num(n) == [num |-> n]
Str(s) == [str |-> s]
Arr(a) == [arr |-> a]
Obj(o) == [obj |-> o]
JsFalse == [bool |-> FALSE]

IsNum(v) == "num" \in DOMAIN v
IsStr(v) == "str" \in DOMAIN v
IsArray(v) == "arr" \in DOMAIN v
IsObj(v) == "obj" \in DOMAIN v

Prop(k, v) == [k |-> k, v |-> v]

Range(s) == {s[i] : i \in DOMAIN s}

Keys(o) == [i \in DOMAIN o |-> o[i].k]

KeySet(o) == {o[i].k : i \in DOMAIN o}

Has(o, k) == k \in KeySet(o)

Get(o, k) == o[CHOOSE i \in DOMAIN o : o[i].k = k].v

\* this.$set(object, key, value): an existing property keeps its place,
\* a new one is added last.
SetProp(o, k, v) ==
    IF Has(o, k)
    THEN [i \in DOMAIN o |-> IF o[i].k = k THEN Prop(k, v) ELSE o[i]]
    ELSE Append(o, Prop(k, v))

\* delete object[key]
DelProp(o, k) == SelectSeq(o, LAMBDA p : p.k # k)

\* Structural equality of two objects: the same keys with the same values,
\* whatever the order the keys were inserted in.
StructEq(o1, o2) ==
    /\ KeySet(o1) = KeySet(o2)
    /\ \A k \in KeySet(o1) : Get(o1, k) = Get(o2, k)

RECURSIVE Flatten(_)
Flatten(ss) == IF ss = <<>> THEN <<>> ELSE Head(ss) \o Flatten(Tail(ss))

(***************************************************************************)
(* Bounds of the model.                                                    *)
(***************************************************************************)
\* Numerals 0..MaxNum are the decimal strings the codec meets.
MaxNum == 9

(***************************************************************************)
(* Query codec.  A query string is modelled as URLSearchParams sees it:    *)
(* the sequence of its name=value pairs, both strings; the empty sequence  *)
(* is the empty string, and a non-empty one carries the leading `?`.       *)
(***************************************************************************)
Param(name, value) == [name |-> name, value |-> value]

\* Template-literal conversion `${a}` of a scalar.
ToStr(v) == IF IsNum(v) THEN ToString(v.num) ELSE v.str

\* (isNaN(value)) ? value : +value  on a string taken from the URL.
ParseScalar(s) ==
    IF s = "" THEN Num(0)
    ELSE IF \E n \in 0..MaxNum : ToString(n) = s
         THEN Num(CHOOSE n \in 0..MaxNum : ToString(n) = s)
         ELSE Str(s)

\* Every property name the model uses.
KeyNames ==
    {"page", "per_page", "search", "categories", "tags", "utm", "programs"}

\* key.replace('[]', '')
StripBrackets(name) ==
    IF \E k \in KeyNames : name = k \o "[]"
    THEN CHOOSE k \in KeyNames : name = k \o "[]"
    ELSE name

\* buildUrlQuery(query, omit, rev): omit is a set of keys (false: none),
\* rev an object of string renames (false: none).
buildUrlQueryPart(query, omit, rev, i) ==
    LET k == query[i].k
        v == query[i].v
        map == IF Has(rev, k) THEN Get(rev, k).str ELSE k
    IN IF k \in omit THEN <<>>
       ELSE IF IsArray(v)
            THEN [j \in DOMAIN v.arr |-> Param(map \o "[]", ToStr(v.arr[j]))]
            ELSE <<Param(map, ToStr(v))>>

buildUrlQuery(query, omit, rev) ==
    Flatten([i \in DOMAIN query |-> buildUrlQueryPart(query, omit, rev, i)])

\* params.getAll(key).map(value => isNaN(value) ? value : +value)
GetAll(params, name) ==
    LET hits == SelectSeq(params, LAMBDA p : p.name = name)
    IN [j \in DOMAIN hits |-> ParseScalar(hits[j].value)]

RECURSIVE CollectParams(_, _, _)
CollectParams(params, i, q) ==
    IF i > Len(params) THEN q
    ELSE LET k == StripBrackets(params[i].name)
         IN CollectParams(params, i + 1,
                IF Has(q, k) THEN q
                ELSE Append(q, Prop(k, Arr(GetAll(params, params[i].name)))))

\* Reverse map the parameters to the actual query vars (history.map).
RECURSIVE ReverseMap(_, _, _)
ReverseMap(q, hmap, i) ==
    IF i > Len(hmap) THEN q
    ELSE LET key == hmap[i].k
             ext == hmap[i].v.str
         IN ReverseMap(IF Has(q, ext)
                       THEN DelProp(SetProp(q, key, Get(q, ext)), ext)
                       ELSE q,
                       hmap, i + 1)

\* buildJsonQuery(query) with this.history.map = hmap: `false` for the
\* empty string, else the object of the parameters.
buildJsonQuery(query, hmap) ==
    IF query = <<>> THEN JsFalse
    ELSE Obj(ReverseMap(CollectParams(query, 1, <<>>), hmap, 1))

(***************************************************************************)
(* Component data (archive.vue data()).                                    *)
(***************************************************************************)
\* data.query
DefaultQuery == <<Prop("page", Num(1)), Prop("per_page", Num(5))>>

\* data.params: the 'safe' params forwarded to the WP REST API.
DefaultParams ==
    {"context", "page", "per_page", "search", "after", "author",
     "author_exclude", "before", "exclude", "include", "offset", "order",
     "orderby", "slug", "status", "tax_relation", "categories",
     "categories_exclude", "tags", "tags_exclude", "sticky"}

\* created hook (proto/app.vue): the custom taxonomy queries pushed onto
\* the list of safe params.
HookParams == {"programs", "populations-served"}

\* data.headers (link is informational and never read)
DefaultHeaders == [pages |-> 0, total |-> 0]

\* data.history
historyOmit == {"page", "per_page"}
historyMap == <<>>
historyFilterParams == FALSE

(***************************************************************************)
(* Bounds of the state machine.                                            *)
(***************************************************************************)
\* Query.page is kept within MinPage..MaxPage by the guards of paginate.
MaxPage == 2
\* User events (click, toggle, reset, paginate) in one behaviour.
MaxOps == 2
\* Fetch runs that may be awaiting the network at the same time.
MaxRuns == 2
\* Responses that deviate from the endpoint's answer (a failed status, a
\* body that is not an array, a rejected request) in one behaviour.
MaxFaults == 1

MinPage == 0 - 1
\* The amounts of the pagination buttons (data-amount): one page back, one
\* page on, two pages on.
Amounts == {0 - 1, 1, 2}
PageIdx == 1..(MaxPage + 2)

(***************************************************************************)
(* Environment: the address bar at load, the terms endpoint, the posts     *)
(* endpoint.                                                               *)
(***************************************************************************)
\* window.location.search when the component is created.
InitialSearch ==
    { <<>>,
      <<Param("categories[]", "1")>>,
      <<Param("categories[]", "1"), Param("categories[]", "2")>>,
      <<Param("utm", "7")>>,
      <<Param("programs[]", "1")>> }

\* The payload of the terms endpoint: taxonomies with their term ids.
TermsPayload ==
    << [name |-> "categories", terms |-> <<1, 2>>],
       [name |-> "tags", terms |-> <<3>>] >>

\* The posts endpoint serves a fixed collection, two items to a page: three
\* pages when no term is asked for, none for a term of `tags`, one page for
\* terms of `categories` alone.  It sees the query string of the request.
HasParam(url, name) == \E i \in DOMAIN url : url[i].name = name

ServerPages(url) ==
    IF HasParam(url, "tags[]") THEN 0
    ELSE IF HasParam(url, "categories[]") THEN 1 ELSE 3

\* X-WP-TotalPages and X-WP-Total of its ok responses.
ServerHeaders(url) ==
    [pages |-> ServerPages(url), total |-> 2 * ServerPages(url)]

\* Its answer for page p: the page of items, an empty array when nothing
\* matches, an error object with status 400 for a page out of range.
ServerAnswer(url, p) ==
    IF p <= ServerPages(url) THEN [ok |-> TRUE, array |-> TRUE, len |-> 2]
    ELSE IF ServerPages(url) = 0 /\ p = 1
         THEN [ok |-> TRUE, array |-> TRUE, len |-> 0]
         ELSE [ok |-> FALSE, array |-> FALSE, len |-> 0]

(***************************************************************************)
(* State.                                                                  *)
(***************************************************************************)
VARIABLES
    pc,         \* "new" before the created hook ran, then "created"
    location,   \* window.location.search
    written,    \* the query strings replaceState wrote, oldest first
    init,       \* data.init
    params,     \* data.params, as a set of names
    terms,      \* data.terms
    termsReq,   \* whether the terms request is in flight
    query,      \* data.query
    headers,    \* data.headers
    posts,      \* data.posts, indexed by page number
    runs,       \* invocations of queue awaiting a request, oldest first
    ops,        \* user events handled so far
    faults,     \* deviating responses so far
    last,       \* the handler that ran last, and what it did
    before      \* query and terms when that handler started

\* The codec applied to an input: the query, its query string, the decoded
\* object, and how far it went ("off" while the component runs).
VARIABLES cin, cstr, cout, cstage

cvars == <<cin, cstr, cout, cstage>>

svars == <<pc, location, written, init, params, terms, termsReq, query, headers,
           posts, runs, ops, faults, last, before>>

Undefined == [undef |-> TRUE]

HavePage(ps, n) == n \in DOMAIN ps /\ "query" \in DOMAIN ps[n]

PageOf(q) == Get(q, "page").num

\* What the last handler did: the offsets its loops evaluated, the requests
\* it issued, the query strings it wrote to the address bar, the calls of
\* the error handler, and whether it threw.
NoLast ==
    [op |-> "none", tax |-> "", term |-> 0, amount |-> 0, run |-> Undefined,
     data |-> Undefined, evals |-> <<>>, issued |-> <<>>, wrote |-> <<>>,
     errors |-> 0, threw |-> FALSE]

WithFx(l, fx) == [l EXCEPT !.evals = fx.evals, !.issued = fx.issued]

Snapshot == [query |-> query, terms |-> terms]

(***************************************************************************)
(* Terms and filters.                                                      *)
(***************************************************************************)
Includes(list, x) == \E i \in DOMAIN list : list[i] = x

\* maps().terms: a taxonomy of the payload as the component keeps it.  The
\* taxonomy has no `checked` property yet (hasChecked); a filter is checked
\* when the query lists its id.
mapsTerms(t, q) ==
    [slug |-> t.name,
     active |-> FALSE,
     hasChecked |-> FALSE,
     checked |-> FALSE,
     filters |-> [j \in DOMAIN t.terms |->
        LET on == Has(q, t.name) /\ Includes(Get(q, t.name).arr, Num(t.terms[j]))
        IN [id |-> t.terms[j], active |-> on, checked |-> on]]]

\* tax.filters.filter(t => t.checked).length === tax.filters.length
AllChecked(tax) ==
    Len(SelectSeq(tax.filters, LAMBDA f : f.checked)) = Len(tax.filters)

TaxIndex(ts, taxonomy) == CHOOSE i \in DOMAIN ts : ts[i].slug = taxonomy

\* Variant of flipChecked: the filter is set checked instead of toggled.
flipChecked_AlwaysOn(ts, ti, fi) ==
    [ts EXCEPT ![ti].filters[fi].checked = TRUE]

\* this.$set(filter, 'checked', !filter.checked)
flipChecked(ts, ti, fi) ==
    [ts EXCEPT ![ti].filters[fi].checked = ~ts[ti].filters[fi].checked]

\* this.$set(tax, 'checked', checked)
setTaxChecked(tax, checked) ==
    [tax EXCEPT !.hasChecked = TRUE, !.checked = checked]

\* Variant of clickTerms: the taxonomy is computed before the filter is
\* toggled.
clickTerms_StaleParent(ts, ti, fi) ==
    [flipChecked(ts, ti, fi) EXCEPT
        ![ti] = setTaxChecked(flipChecked(ts, ti, fi)[ti], AllChecked(ts[ti]))]

\* click, lines 445-452: toggle the filter, then recompute the taxonomy.
clickTerms(ts, ti, fi) ==
    LET flipped == flipChecked(ts, ti, fi)
    IN [flipped EXCEPT ![ti] = setTaxChecked(flipped[ti], AllChecked(flipped[ti]))]

\* Variant of filterTerms: a new term is put first instead of last.
filterTerms_Prepend(q, taxonomy, term) ==
    IF Has(q, taxonomy)
    THEN LET old == Get(q, taxonomy).arr
         IN IF Includes(old, term)
            THEN SelectSeq(old, LAMBDA el : el # term)
            ELSE <<term>> \o old
    ELSE <<term>>

\* filter(taxonomy, term): the list handed to updateQuery.
filterTerms(q, taxonomy, term) ==
    IF Has(q, taxonomy)
    THEN LET old == Get(q, taxonomy).arr
         IN IF Includes(old, term)
            THEN SelectSeq(old, LAMBDA el : el # term)
            ELSE old \o <<term>>
    ELSE <<term>>

\* Variant of filterAllChecked: toggle-all always checks.
filterAllChecked_AlwaysOn(tax) == TRUE

\* filterAll: the new checked state of the taxonomy.
filterAllChecked(tax) ==
    IF tax.hasChecked THEN ~tax.checked ELSE ~AllChecked(tax)

\* Variant of filterAllTax: only the taxonomy is set, its filters are left.
filterAllTax_ParentOnly(tax, checked) == setTaxChecked(tax, checked)

\* filterAll: the taxonomy and each of its filters set to `checked`.
filterAllTax(tax, checked) ==
    [setTaxChecked(tax, checked) EXCEPT
        !.filters = [j \in DOMAIN tax.filters |->
                        [tax.filters[j] EXCEPT !.checked = checked]]]

\* filterAll: the list handed to updateQuery.
filterAllTerms(tax, checked) ==
    IF checked THEN [j \in DOMAIN tax.filters |-> Num(tax.filters[j].id)]
    ELSE <<>>

\* Variant of updateQueryQuery: the page is left as it is.
updateQueryQuery_KeepPage(q, taxonomy, list) ==
    SetProp(q, taxonomy, Arr(list))

\* Variant of updateQueryQuery: an empty list removes the key.
updateQueryQuery_DropEmpty(q, taxonomy, list) ==
    IF list = <<>> THEN SetProp(DelProp(q, taxonomy), "page", Num(1))
    ELSE SetProp(SetProp(q, taxonomy, Arr(list)), "page", Num(1))

\* updateQuery, lines 540-541.
updateQueryQuery(q, taxonomy, list) ==
    SetProp(SetProp(q, taxonomy, Arr(list)), "page", Num(1))

\* updateQuery, lines 544-548: hide all of the posts.
hideAll(ps) ==
    [n \in DOMAIN ps |->
        IF HavePage(ps, n) THEN [ps[n] EXCEPT !.show = FALSE] ELSE ps[n]]

\* reset, lines 567-575, on the query and on the terms.
RECURSIVE resetQuery(_, _, _)
resetQuery(q, ts, i) ==
    IF i > Len(ts) THEN q
    ELSE resetQuery(updateQueryQuery(q, ts[i].slug, <<>>), ts, i + 1)

\* Variant of resetTerms: the taxonomies are unchecked, the filters left.
resetTerms_KeepFilters(ts) == [i \in DOMAIN ts |-> setTaxChecked(ts[i], FALSE)]

\* reset, lines 570-574: every taxonomy and every filter is set unchecked.
resetTerms(ts) == [i \in DOMAIN ts |-> filterAllTax(ts[i], FALSE)]

(***************************************************************************)
(* Fetch/prefetch controller.                                              *)
(***************************************************************************)
\* JSON.stringify of a value and of an object, as the sequence of its
\* tokens: properties are written in the object's own key order.
StringifyScalar(v) ==
    IF IsNum(v) THEN ToString(v.num) ELSE "\"" \o v.str \o "\""

StringifyValue(v) ==
    IF IsArray(v)
    THEN <<"[">> \o [j \in DOMAIN v.arr |-> StringifyScalar(v.arr[j])] \o <<"]">>
    ELSE <<StringifyScalar(v)>>

JsonStringify(o) ==
    Flatten([i \in DOMAIN o |-> <<"\"" \o o[i].k \o "\":">> \o StringifyValue(o[i].v)])

\* Variant of pageQueryMatches: the page number is left in the stored query.
pageQueryMatches_WithPage(Obj1, page) ==
    JsonStringify(Obj1) = JsonStringify(page.query)

\* queue, lines 668-670: the stored query of a page against the benchmark.
pageQueryMatches(Obj1, page) ==
    LET Obj2 == DelProp(page.query, "page")
    IN JsonStringify(Obj1) = JsonStringify(Obj2)

EvalRecord(Obj1, target, ps, outcome) ==
    [key |-> Obj1, target |-> target, outcome |-> outcome,
     entry |-> IF HavePage(ps, target) THEN ps[target] ELSE Undefined]

\* queue, lines 640-684: the loop from offset i on, up to the first offset
\* that asks for a request (the loop then awaits it) or to the end of the
\* list.  It reads the query, the headers and the posts and writes nothing.
RECURSIVE queueLoop(_, _, _, _, _, _, _)
queueLoop(Obj1, queries, i, q, hd, ps, evals) ==
    IF i > Len(queries) THEN [request |-> FALSE, evals |-> evals]
    ELSE
      LET pages == hd.pages
          page == PageOf(q)
          target == page + queries[i]
          rq == SetProp(q, "page", Num(target))
          havePage == HavePage(ps, target)
          matches == havePage /\ pageQueryMatches(Obj1, ps[target])
          current == (target = page)
          next == (page < pages /\ target > page)
          previous == (page > 1 /\ target < page)
          class == IF current THEN "current"
                   ELSE IF next THEN "next" ELSE "previous"
      IN IF target <= 0
         THEN queueLoop(Obj1, queries, i + 1, q, hd, ps,
                        Append(evals, EvalRecord(Obj1, target, ps, "nopage")))
         ELSE IF havePage /\ matches
         THEN queueLoop(Obj1, queries, i + 1, q, hd, ps,
                        Append(evals, EvalRecord(Obj1, target, ps, "hit")))
         ELSE IF current \/ next \/ previous
         THEN [request |-> TRUE, i |-> i, query |-> rq, class |-> class,
               evals |-> Append(evals, EvalRecord(Obj1, target, ps, "request"))]
         ELSE queueLoop(Obj1, queries, i + 1, q, hd, ps,
                        Append(evals, EvalRecord(Obj1, target, ps, "skip")))

\* Variant of wpQuerySafe: every key of the query is forwarded.
wpQuerySafe_All(rq, pm) == rq

\* wpQuery, lines 712-717: the query restricted to the permitted params.
wpQuerySafe(rq, pm) == SelectSeq(rq, LAMBDA p : p.k \in pm)

\* wpQuery, lines 720-725: the query string of the request.
wpQueryUrl(rq, pm) == buildUrlQuery(wpQuerySafe(rq, pm), {}, <<>>)

\* The posts of a page: an array of mapped items, each standing for the
\* request whose response carried it, or `false`.
Items(n, rq) == [len |-> n, of |-> rq]
EmptyItems == [len |-> 0, of |-> <<>>]

IsItems(x) == "len" \in DOMAIN x

\* Variant of wpQueryPosts: every page is stored visible.
wpQueryPosts_ShowAll(ps, q, rq) ==
    [ps EXCEPT ![PageOf(rq)] =
        [posts |-> EmptyItems, query |-> rq, show |-> TRUE]]

\* wpQuery, lines 728-732: the page is stored empty, with its query.
wpQueryPosts(ps, q, rq) ==
    [ps EXCEPT ![PageOf(rq)] =
        [posts |-> EmptyItems, query |-> rq, show |-> (PageOf(q) >= PageOf(rq))]]

\* An invocation of queue awaiting the request of offset i: url is the query
\* string wpQuery handed to fetch.
Run(Obj1, queries, r, pm) ==
    [key |-> Obj1, queries |-> queries, i |-> r.i, query |-> r.query,
     url |-> wpQueryUrl(r.query, pm),
     class |-> r.class, stage |-> "fetch", ok |-> FALSE]

Copies(n, x) == [j \in 1..n |-> x]

\* Variant of queueStart: the loop does not await its first request and
\* issues the request of the next eligible offset with it.
queueStart_NoAwait(q, hd, ps, queries, n, pm) ==
    LET Obj1 == DelProp(q, "page")
        r == queueLoop(Obj1, queries, 1, q, hd, ps, <<>>)
        ps1 == IF n > 0 /\ r.request THEN wpQueryPosts(ps, q, r.query) ELSE ps
        r2 == IF r.request
              THEN queueLoop(Obj1, queries, r.i + 1, q, hd, ps1, <<>>)
              ELSE [request |-> FALSE, evals |-> <<>>]
        both == r.request /\ r2.request
    IN [posts |-> IF n > 0 /\ both THEN wpQueryPosts(ps1, q, r2.query) ELSE ps1,
        runs |-> IF both
                 THEN Copies(n, Run(Obj1, queries, r, pm))
                        \o Copies(n, Run(Obj1, queries, r2, pm))
                 ELSE IF r.request THEN Copies(n, Run(Obj1, queries, r, pm))
                 ELSE <<>>,
        fx |-> [evals |-> Flatten(Copies(n, r.evals \o r2.evals)),
                issued |-> IF both
                           THEN Copies(n, r.query) \o Copies(n, r2.query)
                           ELSE IF r.request THEN Copies(n, r.query)
                           ELSE <<>>]]

\* queue(queries) called n times in a row from one handler (n > 1: reset
\* over n taxonomies).  Each call snapshots the benchmark and runs its loop
\* up to its first await; the wpQuery calls follow in the same order, so
\* every loop reads the posts as the handler left them.
queueStart(q, hd, ps, queries, n, pm) ==
    LET Obj1 == DelProp(q, "page")
        r == queueLoop(Obj1, queries, 1, q, hd, ps, <<>>)
    IN [posts |-> IF n > 0 /\ r.request THEN wpQueryPosts(ps, q, r.query) ELSE ps,
        runs |-> IF r.request THEN Copies(n, Run(Obj1, queries, r, pm)) ELSE <<>>,
        fx |-> [evals |-> Flatten(Copies(n, r.evals)),
                issued |-> IF r.request THEN Copies(n, r.query) ELSE <<>>]]

\* Variant of queueResume: the loop stops after its first request.
queueResume_Abort(run, q, hd, ps, pm) ==
    [posts |-> ps, runs |-> <<>>, fx |-> [evals |-> <<>>, issued |-> <<>>]]

\* The loop of a run resumed after its awaited request settled.
queueResume(run, q, hd, ps, pm) ==
    LET r == queueLoop(run.key, run.queries, run.i + 1, q, hd, ps, <<>>)
    IN [posts |-> IF r.request THEN wpQueryPosts(ps, q, r.query) ELSE ps,
        runs |-> IF r.request THEN <<Run(run.key, run.queries, r, pm)>> ELSE <<>>,
        fx |-> [evals |-> r.evals,
                issued |-> IF r.request THEN <<r.query>> ELSE <<>>]]

\* Variant of replaceStateUrl: no key is omitted.
replaceStateUrl_NoOmit(rq) == buildUrlQuery(rq, {}, historyMap)

\* replaceState(query): the query string written to the address bar.
replaceStateUrl(rq) ==
    LET history == IF historyFilterParams
                   THEN SelectSeq(rq, LAMBDA p : p.k \in params)
                   ELSE rq
    IN buildUrlQuery(history, historyOmit, historyMap)

\* process, lines 776-780: the posts stored for the page of the query.
processPosts(ps, data, rq) ==
    [ps EXCEPT ![PageOf(rq)].posts =
        IF data.array THEN Items(data.len, rq) ELSE JsFalse]

\* this.posts.length: one more than the highest page ever stored.
postsLength(ps) ==
    IF \E n \in DOMAIN ps : HavePage(ps, n)
    THEN 1 + CHOOSE n \in DOMAIN ps :
                 HavePage(ps, n) /\ \A m \in DOMAIN ps : HavePage(ps, m) => m <= n
    ELSE 0

\* page.posts.length as a condition: the page holds at least one item
\* (`false`.length is undefined).
HasItems(page) == IsItems(page.posts) /\ page.posts.len > 0

\* Not-a-Number, what adding `undefined` to a number gives.
NaN == [nan |-> TRUE]

\* computed totalVisible: page.posts.length of every stored visible page,
\* added up from page n on; `false`.length is undefined.
RECURSIVE totalVisibleFrom(_, _)
totalVisibleFrom(ps, n) ==
    IF n > Len(ps) THEN Num(0)
    ELSE LET rest == totalVisibleFrom(ps, n + 1)
         IN IF ~(HavePage(ps, n) /\ ps[n].show) THEN rest
            ELSE IF ~IsItems(ps[n].posts) \/ rest = NaN THEN NaN
            ELSE Num(ps[n].posts.len + rest.num)

computedTotalVisible(ps) == totalVisibleFrom(ps, 1)

\* computed filtering: whether a taxonomy is `active` once initialized.
computedFiltering(initd, ts) ==
    IF ~initd THEN FALSE
    ELSE \E i \in DOMAIN ts : ts[i].active

\* computed loading: "true", "false", or "throws" when the page of the query
\* is read while it is not stored.  `!page.posts.length` is true for an
\* empty array and for `false`.
computedLoading(initd, q, ps) ==
    IF postsLength(ps) = 0 THEN "false"
    ELSE IF ~initd THEN "false"
    ELSE IF ~HavePage(ps, PageOf(q)) THEN "throws"
    ELSE IF ~HasItems(ps[PageOf(q)]) /\ ps[PageOf(q)].show THEN "true"
    ELSE "false"

\* computed next: "true", "false", or "throws" when the page of the query is
\* read while it is not stored.
computedNext(q, hd, ps) ==
    IF postsLength(ps) = 0 THEN "false"
    ELSE IF ~(PageOf(q) < hd.pages) THEN "false"
    ELSE IF ~HavePage(ps, PageOf(q)) THEN "throws"
    ELSE IF HasItems(ps[PageOf(q)]) /\ ps[PageOf(q)].show THEN "true"
    ELSE "false"

(***************************************************************************)
(* Handlers.                                                               *)
(***************************************************************************)
\* The component as constructed, the address bar being `search`.
Constructed(search) ==
    /\ pc = "new"
    /\ location = search
    /\ written = <<>>
    /\ init = FALSE
    /\ params = DefaultParams
    /\ terms = <<>>
    /\ termsReq = FALSE
    /\ query = DefaultQuery
    /\ headers = DefaultHeaders
    /\ posts = [n \in PageIdx |-> Undefined]
    /\ runs = <<>>
    /\ ops = 0
    /\ faults = 0
    /\ last = NoLast
    /\ before = [query |-> DefaultQuery, terms |-> <<>>]

\* The codec variables while the component runs.
CodecOff ==
    /\ cin = <<>>
    /\ cstr = <<>>
    /\ cout = JsFalse
    /\ cstage = "off"

Init ==
    /\ \E search \in InitialSearch : Constructed(search)
    /\ CodecOff

\* getState(): every key of the decoded address bar is set on the query.
RECURSIVE getStateQuery(_, _, _)
getStateQuery(q, decoded, i) ==
    IF ~IsObj(decoded) \/ i > Len(decoded.obj) THEN q
    ELSE getStateQuery(SetProp(q, decoded.obj[i].k, decoded.obj[i].v),
                       decoded, i + 1)

\* created hook (proto/app.vue): the custom taxonomy queries are pushed
\* onto data.params, then getState().queue().fetch('terms').  The request of
\* the first run is built by wpQuery after the push.
Created ==
    /\ pc = "new"
    /\ params' = params \cup HookParams
    /\ LET q1 == getStateQuery(query, buildJsonQuery(location, historyMap), 1)
           st == queueStart(q1, headers, posts, <<0, 1>>, 1, params')
       IN /\ query' = q1
          /\ posts' = st.posts
          /\ runs' = runs \o st.runs
          /\ last' = WithFx([NoLast EXCEPT !.op = "created"], st.fx)
    /\ termsReq' = TRUE
    /\ pc' = "created"
    /\ before' = Snapshot
    /\ UNCHANGED <<location, written, init, terms, headers, ops, faults>>
    /\ UNCHANGED cvars

\* fetch('terms') resolves: the payload is mapped into data.terms.
TermsLoaded ==
    /\ termsReq
    /\ terms' = [i \in DOMAIN TermsPayload |-> mapsTerms(TermsPayload[i], query)]
    /\ termsReq' = FALSE
    /\ last' = [NoLast EXCEPT !.op = "terms"]
    /\ before' = Snapshot
    /\ UNCHANGED <<pc, params, location, written, init, query, headers, posts,
                   runs, ops, faults>>
    /\ UNCHANGED cvars

\* click({data: filter}) on filter fi of taxonomy ti.
Click(ti, fi) ==
    /\ ops < MaxOps
    /\ LET taxonomy == terms[ti].slug
           term == Num(terms[ti].filters[fi].id)
           q1 == updateQueryQuery(query, taxonomy,
                                  filterTerms(query, taxonomy, term))
           st == queueStart(q1, headers, hideAll(posts), <<0, 1>>, 1, params)
       IN /\ Len(runs) + Len(st.runs) <= MaxRuns
          /\ terms' = clickTerms(terms, ti, fi)
          /\ query' = q1
          /\ posts' = st.posts
          /\ runs' = runs \o st.runs
          /\ last' = WithFx([NoLast EXCEPT !.op = "click", !.tax = taxonomy,
                                           !.term = term.num], st.fx)
    /\ ops' = ops + 1
    /\ before' = Snapshot
    /\ UNCHANGED <<pc, params, location, written, init, termsReq, headers, faults>>
    /\ UNCHANGED cvars

\* toggle({data: {parent: slug}}) on taxonomy ti: filterAll.
Toggle(ti) ==
    /\ ops < MaxOps
    /\ LET taxonomy == terms[ti].slug
           checked == filterAllChecked(terms[ti])
           q1 == updateQueryQuery(query, taxonomy,
                                  filterAllTerms(terms[ti], checked))
           st == queueStart(q1, headers, hideAll(posts), <<0, 1>>, 1, params)
       IN /\ Len(runs) + Len(st.runs) <= MaxRuns
          /\ terms' = [terms EXCEPT ![ti] = filterAllTax(terms[ti], checked)]
          /\ query' = q1
          /\ posts' = st.posts
          /\ runs' = runs \o st.runs
          /\ last' = WithFx([NoLast EXCEPT !.op = "toggle", !.tax = taxonomy],
                            st.fx)
    /\ ops' = ops + 1
    /\ before' = Snapshot
    /\ UNCHANGED <<pc, params, location, written, init, termsReq, headers, faults>>
    /\ UNCHANGED cvars

\* reset(): updateQuery(slug, []) for every taxonomy, each starting a run.
Reset ==
    /\ pc = "created"
    /\ ops < MaxOps
    /\ LET n == Len(terms)
           q1 == resetQuery(query, terms, 1)
           ps1 == IF n > 0 THEN hideAll(posts) ELSE posts
           st == queueStart(q1, headers, ps1, <<0, 1>>, n, params)
       IN /\ Len(runs) + Len(st.runs) <= MaxRuns
          /\ terms' = resetTerms(terms)
          /\ query' = q1
          /\ posts' = st.posts
          /\ runs' = runs \o st.runs
          /\ last' = WithFx([NoLast EXCEPT !.op = "reset"], st.fx)
    /\ ops' = ops + 1
    /\ before' = Snapshot
    /\ UNCHANGED <<pc, params, location, written, init, termsReq, headers, faults>>
    /\ UNCHANGED cvars

\* paginate(event) with data-amount = change.  Setting `show` on a page
\* that is not stored throws inside the promise executor: the query keeps
\* its new page and queue is not called.
Paginate(change) ==
    /\ pc = "created"
    /\ ops < MaxOps
    /\ PageOf(query) + change \in MinPage..MaxPage
    /\ LET page == PageOf(query) + change
           q1 == SetProp(query, "page", Num(page))
           stored == HavePage(posts, page)
           ps1 == IF stored THEN [posts EXCEPT ![page].show = TRUE] ELSE posts
           st == queueStart(q1, headers, ps1, <<0, change>>,
                            IF stored THEN 1 ELSE 0, params)
       IN /\ Len(runs) + Len(st.runs) <= MaxRuns
          /\ query' = q1
          /\ posts' = st.posts
          /\ runs' = runs \o IF stored THEN st.runs ELSE <<>>
          /\ last' = WithFx([NoLast EXCEPT !.op = "paginate",
                                           !.amount = change,
                                           !.threw = ~stored],
                            IF stored THEN st.fx
                            ELSE [evals |-> <<>>, issued |-> <<>>])
    /\ ops' = ops + 1
    /\ before' = Snapshot
    /\ UNCHANGED <<pc, params, location, written, init, terms, termsReq, headers,
                   faults>>
    /\ UNCHANGED cvars

\* The loop of run ri goes on after its request settled.
Resume(ri, ps1, l) ==
    LET res == queueResume(runs[ri], query, headers, ps1, params)
    IN /\ posts' = res.posts
       /\ runs' = SubSeq(runs, 1, ri - 1) \o res.runs
                    \o SubSeq(runs, ri + 1, Len(runs))
       /\ last' = WithFx(l, res.fx)

\* The endpoint's answer to the request of a run.
Answer(run) == ServerAnswer(run.url, PageOf(run.query))

\* Variant of responseHeaders: the headers are replaced whatever the status.
responseHeaders_Always(hd, ok, url) == ServerHeaders(url)

\* response, lines 750-761: the headers are replaced when the response is ok.
responseHeaders(hd, ok, url) == IF ok THEN ServerHeaders(url) ELSE hd

\* fetch resolves for run ri with status `ok` and response() runs: the
\* headers are replaced when the response is ok; the body is parsed later.
Response(ri, ok) ==
    /\ runs[ri].stage = "fetch"
    /\ faults' = IF ok = Answer(runs[ri]).ok THEN faults ELSE faults + 1
    /\ faults' <= MaxFaults
    /\ headers' = responseHeaders(headers, ok, runs[ri].url)
    /\ runs' = [runs EXCEPT ![ri].stage = "json", ![ri].ok = ok]
    /\ last' = [NoLast EXCEPT !.op = "response", !.run = runs'[ri]]
    /\ before' = Snapshot
    /\ UNCHANGED <<pc, params, location, written, init, terms, termsReq, query,
                   posts, ops>>
    /\ UNCHANGED cvars

\* Variant of writesState: every completed request writes the address bar.
writesState_Always(run) == TRUE

\* queue, line 693: replaceState is called for the current page only.
writesState(run) == run.class = "current"

\* response.json() resolves with `data` for run ri: replaceState for the
\* current page, process, then the loop goes on.
Process(ri, array) ==
    /\ runs[ri].stage = "json"
    /\ faults' = IF array = Answer(runs[ri]).array THEN faults ELSE faults + 1
    /\ faults' <= MaxFaults
    /\ LET run == runs[ri]
           data == [array |-> array,
                    len |-> IF Answer(run).array THEN Answer(run).len ELSE 2]
           current == writesState(run)
       IN /\ location' = IF current THEN replaceStateUrl(run.query)
                         ELSE location
          /\ written' = IF current
                        THEN Append(written, replaceStateUrl(run.query))
                        ELSE written
          /\ Resume(ri, processPosts(posts, data, run.query),
                    [NoLast EXCEPT !.op = "process", !.run = run,
                        !.data = data,
                        !.wrote = IF current
                                  THEN <<replaceStateUrl(run.query)>>
                                  ELSE <<>>,
                        !.errors = IF array THEN 0 ELSE 1])
    /\ init' = TRUE
    /\ before' = Snapshot
    /\ UNCHANGED <<pc, params, terms, termsReq, query, headers, ops>>
    /\ UNCHANGED cvars

\* The request of run ri is rejected (fetch fails, or the body is not
\* JSON): catch(this.error), then the loop goes on.
Reject(ri) ==
    /\ faults < MaxFaults
    /\ faults' = faults + 1
    /\ Resume(ri, posts, [NoLast EXCEPT !.op = "reject", !.run = runs[ri],
                                        !.errors = 1])
    /\ before' = Snapshot
    /\ UNCHANGED <<pc, params, location, written, init, terms, termsReq, query,
                   headers, ops>>
    /\ UNCHANGED cvars

Next ==
    \/ Created
    \/ TermsLoaded
    \/ \E ti \in DOMAIN terms : \E fi \in DOMAIN terms[ti].filters : Click(ti, fi)
    \/ \E ti \in DOMAIN terms : Toggle(ti)
    \/ Reset
    \/ \E change \in Amounts : Paginate(change)
    \/ \E ri \in DOMAIN runs : \E ok \in BOOLEAN : Response(ri, ok)
    \/ \E ri \in DOMAIN runs : \E array \in BOOLEAN : Process(ri, array)
    \/ \E ri \in DOMAIN runs : Reject(ri)

\* change({data: filter}) of the demonstration app (proto/app.vue) on filter
\* fi of taxonomy ti: the wrapper toggles `checked`, then calls click, which
\* toggles it again.
Change(ti, fi) ==
    /\ ops < MaxOps
    /\ LET taxonomy == terms[ti].slug
           term == Num(terms[ti].filters[fi].id)
           q1 == updateQueryQuery(query, taxonomy,
                                  filterTerms(query, taxonomy, term))
           st == queueStart(q1, headers, hideAll(posts), <<0, 1>>, 1, params)
       IN /\ Len(runs) + Len(st.runs) <= MaxRuns
          /\ terms' = clickTerms(flipChecked(terms, ti, fi), ti, fi)
          /\ query' = q1
          /\ posts' = st.posts
          /\ runs' = runs \o st.runs
          /\ last' = WithFx([NoLast EXCEPT !.op = "change", !.tax = taxonomy,
                                           !.term = term.num], st.fx)
    /\ ops' = ops + 1
    /\ before' = Snapshot
    /\ UNCHANGED <<pc, params, location, written, init, termsReq, headers, faults>>
    /\ UNCHANGED cvars

\* The demonstration app: the component extended with the change wrapper.
NextProto ==
    \/ Next
    \/ \E ti \in DOMAIN terms : \E fi \in DOMAIN terms[ti].filters : Change(ti, fi)

(***************************************************************************)
(* The codec applied to bounded inputs.                                    *)
(***************************************************************************)
Opt(k, vals) == {<<>>} \cup {<<Prop(k, v)>> : v \in vals}

\* Queries (page and per_page always present) whose values are scalars or
\* ordered lists of scalars; page 1 with no other key is the default query.
CodecInputs ==
    {a \o b \o c \o d :
        a \in {<<Prop("page", Num(n))>> : n \in 1..3},
        b \in {<<Prop("per_page", Num(5))>>},
        c \in Opt("search", {Str("abc"), Str("7"), Arr(<<Str("abc")>>)}),
        d \in Opt("categories", {Arr(<<>>), Arr(<<Num(1)>>),
                                 Arr(<<Num(1), Num(2)>>),
                                 Arr(<<Num(2), Num(1)>>)})}

CodecInit ==
    /\ Constructed(<<>>)
    /\ cin \in CodecInputs
    /\ cstr = <<>>
    /\ cout = JsFalse
    /\ cstage = "input"

\* encode(q, [], {})
CodecEncode ==
    /\ cstage = "input"
    /\ cstr' = buildUrlQuery(cin, {}, <<>>)
    /\ cstage' = "encoded"
    /\ UNCHANGED <<cin, cout>>
    /\ UNCHANGED svars

\* decode(string)
CodecDecode ==
    /\ cstage = "encoded"
    /\ cout' = buildJsonQuery(cstr, <<>>)
    /\ cstage' = "decoded"
    /\ UNCHANGED <<cin, cstr>>
    /\ UNCHANGED svars

CodecNext == CodecEncode \/ CodecDecode

vars == <<svars, cvars>>

\* The component: created hook, user events, responses.
Spec == Init /\ [][Next]_vars

\* A request in flight moves on: its response arrives, or its body is
\* parsed and handled.
Settle ==
    \E ri \in DOMAIN runs :
        \/ \E ok \in BOOLEAN : Response(ri, ok)
        \/ \E array \in BOOLEAN : Process(ri, array)

\* The component when every issued request eventually completes and the
\* terms request is answered; user events may or may not happen.
SpecLive == Init /\ [][Next]_vars /\ WF_vars(Settle) /\ WF_vars(TermsLoaded)

\* The codec on its inputs.
SpecCodec == CodecInit /\ [][CodecNext]_vars

\* The demonstration app of proto/app.vue.
SpecProto == Init /\ [][NextProto]_vars

(***************************************************************************)
(* Properties.                                                             *)
(***************************************************************************)
FilterOps == {"click", "toggle", "reset"}

\* The list a query holds for a taxonomy; empty when the key is absent.
ListOf(q, taxonomy) == IF Has(q, taxonomy) THEN Get(q, taxonomy).arr ELSE <<>>

\* The ids of the checked filters of a taxonomy, in the taxonomy's order.
CheckedList(tax) ==
    LET on == SelectSeq(tax.filters, LAMBDA f : f.checked)
    IN [j \in DOMAIN on |-> Num(on[j].id)]

NoPageKey(q) == DelProp(q, "page")

\* The taxonomy and the filter the last click or toggle was about.
LastTi == TaxIndex(terms, last.tax)
LastFi == CHOOSE fi \in DOMAIN terms[LastTi].filters :
              terms[LastTi].filters[fi].id = last.term

\* C2 (as claimed): Query.page is an integer >= 1 in every reachable state,
\* and a paginate call whose delta would make it <= 0 leaves it unchanged.
C2_PageAtLeastOne ==
    /\ IsNum(Get(query, "page"))
    /\ PageOf(query) >= 1
    /\ (last.op = "paginate" /\ PageOf(before.query) + last.amount <= 0)
          => PageOf(query) = PageOf(before.query)

\* C3 (as claimed): after any click, toggle-all or reset, whatever the
\* previous page and the number of taxonomies, Query.page equals 1.
C3_PageOneAfterFilter ==
    last.op \in FilterOps => PageOf(query) = 1

\* C3 (amended): after a click, a toggle-all, or a reset over at least one
\* loaded taxonomy, Query.page equals 1 whatever the previous page.
C3_PageOneAfterFilterLoaded ==
    (last.op \in FilterOps /\ Len(terms) > 0) => PageOf(query) = 1

\* C3 witness: reset over loaded taxonomies took the query from page 2 to 1.
C3_Witness ==
    /\ last.op = "reset"
    /\ Len(terms) > 0
    /\ PageOf(before.query) = 2
    /\ PageOf(query) = 1

\* C4 (as claimed): after any click, toggle or reset the page cache holds no
\* entry, at any page number, whose stored query with page removed differs
\* from the new Query with page removed.
C4_NoStaleEntry ==
    last.op \in FilterOps =>
        \A n \in PageIdx :
            HavePage(posts, n) =>
                StructEq(NoPageKey(posts[n].query), NoPageKey(query))

\* C5: an offset is treated as a cache hit, and no request is issued for
\* its page, exactly when an entry is stored at the target page and its
\* query with page removed is structurally equal to the run's query with
\* page removed; an absent entry or a differing stored query is no hit.
C5_CacheHit ==
    \A j \in DOMAIN last.evals :
        LET e == last.evals[j]
            fresh == /\ e.entry # Undefined
                     /\ StructEq(NoPageKey(e.entry.query), e.key)
        IN /\ (e.outcome = "hit") <=> fresh
           /\ fresh => \A k \in DOMAIN last.issued :
                           PageOf(last.issued[k]) # e.target

\* C5 witness: a loop met a stored page whose query with page removed is the
\* run's (a hit, nothing issued for it) and then an absent page (no hit).
C5_Witness ==
    /\ Len(last.evals) = 2
    /\ last.evals[1].outcome = "hit"
    /\ last.evals[1].entry # Undefined
    /\ last.evals[2].outcome = "request"
    /\ last.evals[2].entry = Undefined

\* A stored page whose query differs from the run's is no hit.
StaleEntryEvaluated ==
    \E j \in DOMAIN last.evals :
        /\ last.evals[j].entry # Undefined
        /\ last.evals[j].outcome = "request"

\* C6 (as claimed): once taxonomies are loaded, Taxonomy.checked is true if
\* and only if every Filter of the taxonomy is checked.
C6_CheckedIffAll ==
    \A ti \in DOMAIN terms : terms[ti].checked = AllChecked(terms[ti])

\* C6 (amended): for a taxonomy with at least one filter whose `checked`
\* property has been set (by a click, toggle or reset), checked is true if
\* and only if every filter of the taxonomy is checked.
C6_CheckedIffAllOnceSet ==
    \A ti \in DOMAIN terms :
        (terms[ti].hasChecked /\ Len(terms[ti].filters) > 0)
            => (terms[ti].checked = AllChecked(terms[ti]))

\* C6 witness: a click checked the last unchecked filter of a taxonomy of
\* two filters, and the taxonomy became checked.
C6_Witness ==
    /\ last.op = "click"
    /\ Len(terms[LastTi].filters) = 2
    /\ terms[LastTi].hasChecked
    /\ terms[LastTi].checked
    /\ ~AllChecked(before.terms[LastTi])

\* C7: after a click on filter f of taxonomy t, a second click on f restores
\* the checked state f had before the first click and the checked state of t
\* derived from the filters as they were before the first click.
C7_ClickTwice ==
    last.op = "click" =>
        LET twice == clickTerms(terms, LastTi, LastFi)
            was == before.terms[LastTi]
        IN /\ twice[LastTi].filters[LastFi].checked = was.filters[LastFi].checked
           /\ twice[LastTi].filters = was.filters
           /\ twice[LastTi].checked = AllChecked(was)

\* C7 witness: the click that has acted changed the filter.
C7_Witness ==
    /\ last.op = "click"
    /\ terms[LastTi].filters[LastFi].checked
         # before.terms[LastTi].filters[LastFi].checked
    /\ AllChecked(before.terms[LastTi])

\* C8 (as claimed): after a click on taxonomy t, Query[t] is the list of the
\* ids of the checked filters of t in the taxonomy's filter order.
C8_TaxonomyOrder ==
    last.op = "click" =>
        ListOf(query, last.tax) = CheckedList(terms[LastTi])

\* C8 (amended): after a click on filter f of taxonomy t, Query[t] is the
\* list it was before (empty if the key was absent) with f removed if it
\* was listed, else with f added last; when the list held the ids of the
\* checked filters before, it holds them after.
C8_ClickOrder ==
    last.op = "click" =>
        LET old == ListOf(before.query, last.tax)
            new == ListOf(query, last.tax)
            f == Num(last.term)
        IN /\ Has(query, last.tax)
           /\ IF f \in Range(old)
              THEN new = SelectSeq(old, LAMBDA el : el # f)
              ELSE new = Append(old, f)
           /\ Range(old) = Range(CheckedList(before.terms[LastTi]))
                 => Range(new) = Range(CheckedList(terms[LastTi]))

\* C8 witness: the second filter was clicked first, so the list is <<2, 1>>.
C8_Witness ==
    /\ last.op = "click"
    /\ last.tax = "categories"
    /\ ListOf(query, "categories") = <<Num(2), Num(1)>>
    /\ terms[LastTi].checked

\* C9 (as claimed): when a click leaves a taxonomy with no checked filter,
\* the taxonomy key is removed from the Query.
C9_KeyRemoved ==
    (last.op = "click" /\ CheckedList(terms[LastTi]) = <<>>)
        => ~Has(query, last.tax)

\* C9 (amended): a click never removes the taxonomy key: unchecking the only
\* listed id leaves the key with an empty list, and after a click that
\* checked a filter, a second click on it gives the Query before the first
\* click with page 1 and the key holding the list it had (empty if absent).
C9_KeyKeptEmpty ==
    last.op = "click" =>
        LET old == ListOf(before.query, last.tax)
            f == Num(last.term)
            off == updateQueryQuery(query, last.tax,
                                    filterTerms(query, last.tax, f))
        IN /\ Has(query, last.tax)
           /\ Range(old) = {f} => Get(query, last.tax) = Arr(<<>>)
           /\ f \notin Range(old) =>
                 off = SetProp(SetProp(before.query, last.tax, Arr(old)),
                               "page", Num(1))

\* C9 witness: a click unchecked the only checked filter of a taxonomy.
C9_Witness ==
    /\ last.op = "click"
    /\ CheckedList(terms[LastTi]) = <<>>
    /\ CheckedList(before.terms[LastTi]) # <<>>
    /\ Get(query, last.tax) = Arr(<<>>)

\* C10: toggle-all checks every filter when at least one was unchecked and
\* unchecks every filter when all were checked; Query[taxonomy] becomes all
\* the ids in taxonomy order, or the empty list; the taxonomy's checked
\* follows (for a taxonomy that has filters); and a second call after the
\* filters were checked unchecks all.
C10_ToggleAll ==
    last.op = "toggle" =>
        LET was == before.terms[LastTi]
            now == terms[LastTi]
            on == ~AllChecked(was)
            again == filterAllChecked(now)
        IN /\ \A j \in DOMAIN now.filters : now.filters[j].checked = on
           /\ Len(now.filters) > 0 => now.checked = on
           /\ Get(query, last.tax) =
                 Arr(IF on THEN [j \in DOMAIN now.filters |-> Num(now.filters[j].id)]
                     ELSE <<>>)
           /\ on => /\ again = FALSE
                    /\ filterAllTerms(now, again) = <<>>

\* C10 witness: toggle-all on {1 checked, 2 unchecked} checked both.
C10_Witness ==
    /\ last.op = "toggle"
    /\ last.tax = "categories"
    /\ before.terms[LastTi].filters[1].checked
    /\ ~before.terms[LastTi].filters[2].checked
    /\ Get(query, "categories") = Arr(<<Num(1), Num(2)>>)
    /\ terms[LastTi].checked

\* C1 (as claimed): decode(encode(q, [], {})) is structurally equal to q for
\* every Query q whose values are scalars or ordered lists of scalars.
C1_RoundTrip ==
    cstage = "decoded" => (IsObj(cout) /\ StructEq(cout.obj, cin))

\* C11 (as claimed): after reset() every filter of every taxonomy is
\* unchecked, every Taxonomy.checked is false, and no taxonomy key remains in
\* the Query.
C11_ResetClearsKeys ==
    last.op = "reset" =>
        /\ \A ti \in DOMAIN terms :
              /\ ~terms[ti].checked
              /\ \A fi \in DOMAIN terms[ti].filters :
                    ~terms[ti].filters[fi].checked
        /\ \A ti \in DOMAIN terms : ~Has(query, terms[ti].slug)

\* C11 (amended): after reset() every filter of every loaded taxonomy is
\* unchecked, every loaded taxonomy has checked set to false, and the Query
\* holds the key of every loaded taxonomy with the empty list; every other
\* key but page keeps its value.
C11_ResetEmptiesKeys ==
    last.op = "reset" =>
        /\ \A ti \in DOMAIN terms :
              /\ terms[ti].hasChecked
              /\ ~terms[ti].checked
              /\ \A fi \in DOMAIN terms[ti].filters :
                    ~terms[ti].filters[fi].checked
              /\ Has(query, terms[ti].slug)
              /\ Get(query, terms[ti].slug) = Arr(<<>>)
        /\ \A k \in KeySet(before.query) :
              (k # "page" /\ \A ti \in DOMAIN terms : terms[ti].slug # k)
                  => (Has(query, k) /\ Get(query, k) = Get(before.query, k))

\* C11 witness: reset acted on a taxonomy with a checked filter whose id the
\* Query listed.
C11_Witness ==
    /\ last.op = "reset"
    /\ Len(terms) > 0
    /\ \E ti \in DOMAIN before.terms :
          /\ \E fi \in DOMAIN before.terms[ti].filters :
                before.terms[ti].filters[fi].checked
          /\ ListOf(before.query, before.terms[ti].slug) # <<>>
          /\ Get(query, terms[ti].slug) = Arr(<<>>)

\* The default query at page n.
DefaultAt(n) == SetProp(DefaultQuery, "page", Num(n))

\* The first fetch run is over: nothing but the created hook and the answers
\* of the endpoint (three pages) happened, from the default query.
FirstRunOver ==
    /\ pc = "created"
    /\ ops = 0
    /\ faults = 0
    /\ runs = <<>>
    /\ query = DefaultQuery

\* C12: from the default Query, an empty cache and a collection of three
\* pages, the first fetch run with offsets [0, 1] ends with page 1 populated
\* and visible, page 2 populated and not visible, no other page stored, and
\* the address bar written exactly once, for page 1's query.
C12_ScenarioA ==
    FirstRunOver =>
        /\ HavePage(posts, 1)
        /\ posts[1].posts = Items(2, DefaultAt(1))
        /\ posts[1].show
        /\ HavePage(posts, 2)
        /\ posts[2].posts = Items(2, DefaultAt(2))
        /\ ~posts[2].show
        /\ ~HavePage(posts, 3)
        /\ written = <<replaceStateUrl(DefaultAt(1))>>
        /\ location = replaceStateUrl(DefaultAt(1))

\* C12 witness: with no taxonomy loaded, the run ended by processing the
\* prefetched page 2.
C12_Witness ==
    /\ FirstRunOver
    /\ terms = <<>>
    /\ last.op = "process"
    /\ PageOf(last.run.query) = 2
    /\ last.run.class = "next"
    /\ headers.pages = 3

\* Page 1 of the current query is resolved with items.
PageOneResolved(ps, q) ==
    /\ HavePage(ps, 1)
    /\ StructEq(NoPageKey(ps[1].query), NoPageKey(q))
    /\ HasItems(ps[1])

\* C13 (as claimed): with Query.page = 1, one page in total, page 1
\* resolved and every response so far sound, hasNext is false, and after paginate(+1) Query.page is 2, no
\* request is issued and page 2 is not stored or stored with no items.
C13_ScenarioD ==
    (/\ last.op = "paginate"
     /\ last.amount = 1
     /\ faults = 0
     /\ PageOf(before.query) = 1
     /\ headers.pages = 1
     /\ PageOneResolved(posts, before.query))
        => /\ computedNext(before.query, headers, posts) = "false"
           /\ PageOf(query) = 2
           /\ last.issued = <<>>
           /\ (HavePage(posts, 2) => ~HasItems(posts[2]))

\* The run whose response the last handler dealt with, and its page.
LastPage == PageOf(last.run.query)

\* C14 (as claimed): when a page request fails (a response that is not ok,
\* or a body that is not an array), the page at that page number is stored
\* with items equal to the empty list.
C14_FailedPageEmpty ==
    (last.op = "process" /\ (~last.run.ok \/ ~last.data.array))
        => /\ HavePage(posts, LastPage)
           /\ posts[LastPage].posts = EmptyItems

\* C15 (as claimed): when the request classified as current gets a response
\* that is not ok, the address bar is not written for its query.
C15_NoWriteOnHttpFailure ==
    (last.op = "process" /\ last.run.class = "current" /\ ~last.run.ok)
        => last.wrote = <<>>

\* The request the last handler settled has failed: it was rejected, or its
\* response was not ok, or its body was not an array.
LastFailed ==
    \/ last.op = "reject"
    \/ last.op = "process" /\ (~last.run.ok \/ ~last.data.array)

\* C16 (as claimed): the error handler is invoked exactly once for every
\* failed page request (a response that is not ok, a rejection, a body that
\* is not an array) and not at all for a successful one.
C16_ErrorOncePerFailure ==
    last.op \in {"process", "reject"} =>
        last.errors = (IF LastFailed THEN 1 ELSE 0)

\* An offset asks for a request: its page is positive, is no cache hit, and
\* is the current page, or a later one while there are pages after the
\* current, or an earlier one while the current is not the first.
Eligible(e, page, pages) ==
    /\ e.target > 0
    /\ ~(e.entry # Undefined /\ StructEq(NoPageKey(e.entry.query), e.key))
    /\ \/ e.target = page
       \/ page < pages /\ e.target > page
       \/ page > 1 /\ e.target < page

\* C17: after the request of an offset failed (rejection, response not ok,
\* body not an array) the same run goes on: it evaluates the later offsets of
\* its list in order, issues the request of the first eligible one and
\* awaits it, and evaluates all of them when none is eligible.
C17_FailureDoesNotAbort ==
    (last.op \in {"process", "reject"} /\ LastFailed) =>
        LET run == last.run
            rest == Len(run.queries) - run.i
            n == Len(last.evals)
        IN /\ n <= rest
           /\ \A j \in 1..n :
                 LET e == last.evals[j]
                 IN /\ e.target = PageOf(query) + run.queries[run.i + j]
                    /\ (e.outcome = "request")
                          <=> Eligible(e, PageOf(query), headers.pages)
                    /\ e.outcome = "request" => j = n
           /\ IF n > 0 /\ last.evals[n].outcome = "request"
              THEN /\ Len(last.issued) = 1
                   /\ PageOf(last.issued[1]) = last.evals[n].target
                   /\ \E ri \in DOMAIN runs :
                         /\ runs[ri].query = last.issued[1]
                         /\ runs[ri].i = run.i + n
                         /\ runs[ri].stage = "fetch"
              ELSE n = rest /\ last.issued = <<>>

\* C17 witness: the request of offset 0 failed and the run issued the
\* request of offset 1.
C17_Witness ==
    /\ last.op \in {"process", "reject"}
    /\ LastFailed
    /\ last.run.i = 1
    /\ Len(last.issued) = 1
    /\ PageOf(last.issued[1]) = PageOf(last.run.query) + 1

\* C18 (as claimed): a response that is not ok is treated as a failure also
\* when its body is an array: the items are not stored as the page's results
\* and the error handler is invoked.
C18_NonOkArrayIsFailure ==
    (last.op = "process" /\ ~last.run.ok /\ last.data.array)
        => /\ ~HasItems(posts[LastPage])
           /\ last.errors = 1

\* The keys a query string carries.
UrlKeys(url) == {StripBrackets(url[i].name) : i \in DOMAIN url}

\* C19: every request awaiting its answer carries only keys of the
\* allow-list (params), and it carries each allow-listed key of its query
\* whose value is a scalar or a non-empty list.
C19_OnlyAllowListed ==
    \A ri \in DOMAIN runs :
        /\ UrlKeys(runs[ri].url) \subseteq params
        /\ \A k \in KeySet(runs[ri].query) :
              (k \in params /\ Get(runs[ri].query, k) # Arr(<<>>))
                  => k \in UrlKeys(runs[ri].url)

\* C19 witness: a request was issued for a query that holds a key outside
\* the allow-list, and does not carry it.
C19_Witness ==
    \E ri \in DOMAIN runs :
        /\ Has(runs[ri].query, "utm")
        /\ "utm" \notin params
        /\ "utm" \notin UrlKeys(runs[ri].url)
        /\ "page" \in UrlKeys(runs[ri].url)

\* The name history.map gives a key in the address bar.
Renamed(k) == IF Has(historyMap, k) THEN Get(historyMap, k).str ELSE k

\* C20 (as claimed): every write to the address bar contains only keys that
\* are allow-listed and not omitted; with the default configuration a Query
\* key outside the allow-list never appears in the address bar.
C20_WriteAllowListedOnly ==
    \A j \in DOMAIN last.wrote :
        UrlKeys(last.wrote[j]) \subseteq
            {Renamed(k) : k \in params \ historyOmit}

\* C20 (amended): with the default configuration every write to the address
\* bar contains exactly the keys of the written query that are not omitted
\* and whose value is not an empty list, each renamed through the map,
\* whether allow-listed or not.
C20_WriteAllButOmitted ==
    last.op = "process" =>
        /\ last.wrote # <<>> <=> last.run.class = "current"
        /\ \A j \in DOMAIN last.wrote :
              UrlKeys(last.wrote[j]) =
                  {Renamed(k) : k \in {x \in KeySet(last.run.query) \ historyOmit :
                                          Get(last.run.query, x) # Arr(<<>>)}}

\* C20 witness: the address bar was written for a query holding a key
\* outside the allow-list and an allow-listed one; both are written, page
\* and per_page are not.
C20_Witness ==
    /\ last.op = "process"
    /\ Len(last.wrote) = 1
    /\ UrlKeys(last.wrote[1]) = {"utm", "categories"}
    /\ "utm" \notin params
    /\ Has(last.run.query, "page")

\* C21 (as claimed): in every reachable state `loading` is defined and is
\* true exactly when the store is initialized and the page at Query.page
\* exists, has no item and is visible; it is false when no page exists at
\* Query.page.
C21_LoadingDefined ==
    computedLoading(init, query, posts) =
        (IF /\ init
            /\ HavePage(posts, PageOf(query))
            /\ ~HasItems(posts[PageOf(query)])
            /\ posts[PageOf(query)].show
         THEN "true" ELSE "false")

\* C22 (as claimed): in every reachable state hasNext is defined and is true
\* exactly when Query.page is below the total of pages and the page at
\* Query.page is stored, has at least one item and is visible.
C22_HasNextDefined ==
    computedNext(query, headers, posts) =
        (IF /\ PageOf(query) < headers.pages
            /\ HavePage(posts, PageOf(query))
            /\ HasItems(posts[PageOf(query)])
            /\ posts[PageOf(query)].show
         THEN "true" ELSE "false")

\* C23 (as claimed): `filtering` is true exactly when the store is
\* initialized and at least one taxonomy has checked = true; so it is true
\* after toggle-all checked every filter of a taxonomy in an initialized
\* store.
C23_FilteringIffChecked ==
    computedFiltering(init, terms) =
        (init /\ \E ti \in DOMAIN terms : terms[ti].checked)

\* The items a page holds: none when its request failed or is in flight.
ItemCount(page) == IF IsItems(page.posts) THEN page.posts.len ELSE 0

RECURSIVE VisibleSum(_, _)
VisibleSum(ps, n) ==
    IF n > Len(ps) THEN 0
    ELSE (IF HavePage(ps, n) /\ ps[n].show THEN ItemCount(ps[n]) ELSE 0)
         + VisibleSum(ps, n + 1)

\* C24 (as claimed): for any reachable cache contents, pages whose request
\* failed or is in flight included, totalVisible is a number, the sum of the
\* item counts of the visible pages.
C24_TotalVisibleIsSum ==
    computedTotalVisible(posts) = Num(VisibleSum(posts, 1))

\* The last handler ended a fetch run: the loop went through the rest of its
\* offset list without asking for a further request.
RunEnded ==
    /\ \/ last.op \in {"process", "reject"}
       \/ last.evals # <<>>
    /\ last.issued = <<>>

\* C25 (as claimed): whenever a fetch run has gone through its whole offset
\* list (every request it issued has succeeded or failed, or every offset
\* was skipped), the initialized flag is true.
C25_InitAfterRun ==
    RunEnded => init

\* The last handler processed a failed request for the current page, which
\* still is the page of the query.
FailedCurrent ==
    /\ last.op = "process"
    /\ last.run.class = "current"
    /\ PageOf(last.run.query) = PageOf(query)
    /\ (~last.run.ok \/ ~last.data.array)

\* C26 (as claimed): when every issued request eventually completes, after
\* the request of the current page failed (response not ok, or body not an
\* array) `loading` does not hang: it eventually is false.
C26_LoadingSettles ==
    FailedCurrent ~> (computedLoading(init, query, posts) = "false")

\* C27: a response that is not ok leaves the stored headers as they are; the
\* headers change only when a response that is ok is handled, and then they
\* are the ones of that response.
C27_HeadersOnlyOnOk ==
    [][/\ headers' # headers => (last'.op = "response" /\ last'.run.ok)
       /\ (last'.op = "response" /\ ~last'.run.ok) => headers' = headers
       /\ (last'.op = "response" /\ last'.run.ok)
             => headers' = ServerHeaders(last'.run.url)]_vars

\* C27 witness: a response that is not ok was handled while the headers of
\* an earlier response were stored, and they still are.
C27_Witness ==
    /\ last.op = "response"
    /\ ~last.run.ok
    /\ headers.pages = 3
    /\ headers.total = 6

\* The offsets of a list of evaluations that asked for a request.
Requests(evals) == SelectSeq(evals, LAMBDA e : e.outcome = "request")

\* C28: the requests of one invocation of queue are sequential.  A handler
\* that calls queue puts in flight at most one request per invocation (one
\* invocation, or one per taxonomy for reset), that of the first offset that
\* asks for one.  Handling a response status settles nothing and issues
\* nothing.  When the request of a run has settled (processed or rejected)
\* it is no longer in flight, and only then does the run issue at most one
\* request, for a later offset of its list.
C28_OneInFlightPerRun ==
    [][LET l == last'
           calls == IF l.op = "reset" THEN Len(terms)
                    ELSE IF l.op = "paginate" /\ l.threw THEN 0
                    ELSE 1
       IN /\ Len(Requests(l.evals)) = Len(l.issued)
          /\ l.op \in {"created", "click", "toggle", "reset", "paginate"} =>
                /\ Len(l.issued) \in {0, calls}
                /\ Len(runs') = Len(runs) + Len(l.issued)
                /\ \A j \in 1..Len(l.issued) :
                      /\ runs'[Len(runs) + j].query = l.issued[j]
                      /\ runs'[Len(runs) + j].stage = "fetch"
          /\ l.op \in {"response", "terms"} =>
                /\ l.issued = <<>>
                /\ Len(runs') = Len(runs)
          /\ l.op \in {"process", "reject"} =>
                /\ \E ri \in DOMAIN runs :
                      /\ runs[ri].query = l.run.query
                      /\ runs[ri].i = l.run.i
                /\ Len(l.issued) <= 1
                /\ Len(runs') = Len(runs) - 1 + Len(l.issued)
                /\ l.issued # <<>> =>
                      \E rj \in DOMAIN runs' :
                         /\ runs'[rj].query = l.issued[1]
                         /\ runs'[rj].key = l.run.key
                         /\ runs'[rj].i > l.run.i
                         /\ runs'[rj].stage = "fetch"]_vars

\* C28 witness: the request of offset 0 of a run was processed without a
\* failure, the run then issued the request of offset 1, and that request
\* is the only one in flight.
C28_Witness ==
    /\ last.op = "process"
    /\ last.run.ok
    /\ last.data.array
    /\ last.run.i = 1
    /\ Len(last.issued) = 1
    /\ Len(runs) = 1
    /\ runs[1].i = 2
    /\ runs[1].stage = "fetch"

\* C29 (as claimed): every request a loop issues is for the current page,
\* for a later page while the current page is below the total of pages, or
\* for an earlier page while the current page is above 1; and a request for
\* a page other than the current one (a prefetch) is for a page from 1 to
\* the total of pages read when its offset was evaluated.
C29_PrefetchWithinPages ==
    \A j \in DOMAIN last.evals :
        LET e == last.evals[j]
            page == PageOf(query)
            pages == headers.pages
        IN e.outcome = "request" =>
              /\ \/ e.target = page
                 \/ page < pages /\ e.target > page
                 \/ page > 1 /\ e.target < page
              /\ e.target # page => (e.target > 0 /\ e.target <= pages)

\* C30: the address bar changes only in the step that completes a request
\* classified current, and then by replaceState of that request's query;
\* completing a request classified next or previous leaves it as it is, and
\* so does every step that only evaluates, skips or issues offsets.
C30_WriteOnlyOnCurrent ==
    [][LET l == last'
           wrote == location' # location \/ written' # written
       IN /\ wrote => (l.op = "process" /\ l.run.class = "current")
          /\ (l.op = "process" /\ l.run.class = "current") =>
                /\ location' = replaceStateUrl(l.run.query)
                /\ written' = Append(written, location')
          /\ (l.op = "process" /\ l.run.class # "current") =>
                /\ location' = location
                /\ written' = written]_vars

\* C30 witness: the request of a prefetched page completed after the
\* address bar had been written once for the current page, and the address
\* bar has still been written once.
C30_Witness ==
    /\ last.op = "process"
    /\ last.run.class = "next"
    /\ last.wrote = <<>>
    /\ Len(written) = 1
    /\ location = written[1]

\* C31 (as claimed): a paginate call whose resulting page is at least 1 sets
\* Query.page to the previous page plus the delta, makes the target page
\* stored and visible at once, and starts a run over the offsets 0 and
\* delta, whether or not the target page was stored before the call.
C31_PaginateAlwaysRuns ==
    (last.op = "paginate" /\ PageOf(before.query) + last.amount >= 1) =>
        /\ PageOf(query) = PageOf(before.query) + last.amount
        /\ ~last.threw
        /\ HavePage(posts, PageOf(query))
        /\ posts[PageOf(query)].show
        /\ last.evals # <<>>
        /\ last.evals[1].target = PageOf(query)

\* C32 (as claimed): after the change wrapper is called on a filter, the
\* filter's `checked` is the negation of its value before the call, and the
\* filter's id is listed in Query[taxonomy] exactly when `checked` is true.
C32_ChangeToggles ==
    last.op = "change" =>
        LET f == terms[LastTi].filters[LastFi]
            was == before.terms[LastTi].filters[LastFi]
        IN /\ f.checked = ~was.checked
           /\ Includes(ListOf(query, last.tax), Num(f.id)) <=> f.checked

\* The ids a query lists for a taxonomy, and the ids of its checked filters.
QueryIds(q, taxonomy) ==
    {ListOf(q, taxonomy)[j].num : j \in DOMAIN ListOf(q, taxonomy)}
CheckedIds(tax) == {tax.filters[j].id : j \in {k \in DOMAIN tax.filters :
                                                  tax.filters[k].checked}}

\* C33: once the taxonomies are loaded from the Query, after any sequence of
\* click, toggle and reset (and of paginate and responses between them), for
\* every taxonomy the set of ids listed in the Query under its slug (none if
\* the key is absent) is the set of ids of its checked filters.
C33_QueryMatchesChecked ==
    \A ti \in DOMAIN terms :
        QueryIds(query, terms[ti].slug) = CheckedIds(terms[ti])

\* C33 witness: two filter operations have acted, the last one a click that
\* unchecked a filter of a taxonomy that still has a checked filter.
C33_Witness ==
    /\ ops = 2
    /\ last.op = "click"
    /\ before.terms # <<>>
    /\ before.terms[LastTi].filters[LastFi].checked
    /\ ~terms[LastTi].filters[LastFi].checked
    /\ CheckedIds(terms[LastTi]) # {}

\* The page at Query.page is stored and visible.
CurrentVisible ==
    /\ HavePage(posts, PageOf(query))
    /\ posts[PageOf(query)].show

\* C34 (as claimed): after a click, toggle or reset on loaded taxonomies,
\* once every run has finished and no request is outstanding, the page at
\* Query.page is stored and visible.  Stated for the call that leaves
\* nothing outstanding (every offset of its runs was skipped and no earlier
\* run is awaiting a request), with every response so far the endpoint's
\* answer.
C34_FilterShowsPage ==
    (/\ last.op \in FilterOps
     /\ before.terms # <<>>
     /\ faults = 0
     /\ runs = <<>>)
        => /\ PageOf(query) = 1
           /\ CurrentVisible

\* C35 (as claimed): no two outstanding requests, of whatever runs, are for
\* the same page number with the same page-stripped query; stated for the
\* behaviours in which every response is the endpoint's answer.
C35_NoDuplicateRequest ==
    \A i, j \in DOMAIN runs :
        (faults = 0 /\ i # j) =>
              ~(/\ PageOf(runs[i].query) = PageOf(runs[j].query)
                   /\ StructEq(NoPageKey(runs[i].query),
                               NoPageKey(runs[j].query)))

\* C36 (as claimed): the query of every outstanding request, page removed,
\* is the generation key its run snapshotted when it started, also when the
\* Query was changed while the run was awaiting an earlier request; stated
\* for the behaviours in which every response is the endpoint's answer.
C36_RequestFromSnapshot ==
    \A ri \in DOMAIN runs :
        faults = 0 => StructEq(NoPageKey(runs[ri].query), runs[ri].key)

\* C37 (as claimed): the items a stored page holds, once a response filled
\* it, are those of the response to the request made with the page's own
\* stored query, whatever the order the responses arrive in; stated for the
\* behaviours in which every response is the endpoint's answer.
C37_ItemsOfOwnQuery ==
    \A p \in PageIdx :
        (/\ faults = 0
         /\ HavePage(posts, p)
         /\ IsItems(posts[p].posts)
         /\ posts[p].posts # EmptyItems)
            => posts[p].posts.of = posts[p].query

\* Nothing is outstanding: no run is awaiting a request.
Quiet == runs = <<>>

\* C38 (as claimed): once no run is active and no request is outstanding,
\* the last query string written to the address bar is the one of the
\* current Query, whatever the order the responses arrived in; stated for
\* the behaviours in which every response is the endpoint's answer.
C38_AddressBarIsQuery ==
    (Quiet /\ faults = 0 /\ written # <<>>) =>
        /\ written[Len(written)] = replaceStateUrl(query)
        /\ location = replaceStateUrl(query)

\* C39 (as claimed): in every reachable state every stored page that is
\* visible has a page number at most Query.page; stated for the states in
\* which Query.page is at least 1 and every response so far was the
\* endpoint's answer.
C39_VisibleUpToPage ==
    \A p \in PageIdx :
        (/\ PageOf(query) >= 1
         /\ faults = 0
         /\ HavePage(posts, p)
         /\ posts[p].show)
            => p <= PageOf(query)

\* C40 (as claimed): once no run is active and no request is outstanding,
\* the stored totals are those the endpoint gives for the current Query
\* (whatever its page); stated for the behaviours in which every response
\* is the endpoint's answer and some ok response has set the totals.
C40_HeadersOfCurrentQuery ==
    (Quiet /\ faults = 0 /\ headers # DefaultHeaders) =>
        headers = ServerHeaders(wpQueryUrl(query, params))

=============================================================================
